---- MODULE Spec2Model ----
(***************************************************************************)
(* State-machine model of the softphone core:                              *)
(*   - SIPService     (src/src/services/sipService.ts, lines 20-296)       *)
(*   - StorageService (src/src/services/sipService.ts, lines 298-438)      *)
(*   - useCall        (src/src/hooks/useCall.ts, lines 14-279)             *)
(* The SIP engine (JsSIP.UA and its RTCSession objects) is an external     *)
(* collaborator: the model keeps the part of its state the facade reads    *)
(* (isRegistered, isConnected, started/stopped) and lets it deliver its    *)
(* events in any order; each event action is the handler the facade or     *)
(* the controller attached for it.                                         *)
(***************************************************************************)
EXTENDS Integers, Sequences, FiniteSets, TLC

\* ------------------------------------------------------------------ bounds
MaxEngines == 2      \* engine instances constructed in one behaviour
MaxTimers == 1       \* pending 100 ms 'registered' timers per account
MaxSessions == 2     \* sessions the engine creates in one behaviour
MaxResets == 2       \* pending 2-second reset timers
MaxDuration == 2     \* seconds counted by the duration timer
MaxIds == 2          \* accounts added to the store in one behaviour
MaxSubs == 2         \* on() calls for one event name since its slot was cleared

\* --------------------------------------------------------------- constants
Accounts == {"A", "B", "U"}
NoAccount == "none"
NoEngine == 0

Transport(a) == CASE a = "A" -> "WSS" [] a = "B" -> "WS" [] OTHER -> "UDP"

VARIABLES
    userAgent,        \* SIPService.userAgent: engine id or NoEngine
    currentAccount,   \* SIPService.currentAccount (its id) or NoAccount
    isRegistering,    \* SIPService.isRegistering
    pendingReg,       \* account of the registerAccount call suspended at
                      \* 'await this.disconnect()', or NoAccount
    engines,          \* every JsSIP.UA constructed so far, by id
    regTimers,        \* pending setTimeout(...,100) of the 'registered' handler
    status,           \* registrationStatus of each stored account
    lastOp,           \* the last facade call and what it returned
    eventListeners,   \* SIPService.eventListeners: the handler of each event name
    callState,        \* useCall's callState record
    sessions,         \* every RTCSession the engine created so far, by id
    resetTimers,      \* pending setTimeout(...,2000) resets to "idle"
    intervals,        \* live setInterval(...,1000) duration timers
    pendingThrew,     \* the disconnect() awaited by the suspended registerAccount
                      \* call rejected
    stored,           \* localStorage["softphone_sip_accounts"]: Absent, Corrupt or the
                      \* Json of a sequence of account records
    activeId,         \* localStorage["softphone_active_account_id"]: an id or NoId
    nextId,           \* the id generateId() returns next
    subscribed,       \* history: the handlers passed to on() for each event name
    selectorAccounts  \* AccountSelector's 'accounts' state: the ids it loaded
                      \* since the slot was last cleared, oldest first

callVars == <<eventListeners, callState, sessions, resetTimers, intervals>>

\* the account store, the subscription history, the rejection flag and the
\* selector's list: state the registration and call operations above never touch
extVars == <<pendingThrew, stored, activeId, nextId, subscribed, selectorAccounts>>

vars == <<userAgent, currentAccount, isRegistering, pendingReg, engines,
          regTimers, status, lastOp, eventListeners, callState, sessions,
          resetTimers, intervals, pendingThrew, stored, activeId, nextId,
          subscribed, selectorAccounts>>

\* null where a character sequence may stand: a sequence no text equals
Null == <<"null">>

\* keyof SIPServiceEvents
EventNames == {"registrationStatusChanged", "incomingCall", "callEnded"}

\* eventListeners = {}
NoListeners == [ev \in {} |-> Null]

\* the value under the accounts key: none (getItem returns null), one that
\* JSON.parse or the map over it throws on, or the JSON of a list of records
Absent == [parses |-> "absent", accounts |-> << >>]
Corrupt == [parses |-> "no", accounts |-> << >>]
Json(accounts) == [parses |-> "yes", accounts |-> accounts]

\* ------------------------------------------------------------ the facade
OtherOp == [op |-> "other", acct |-> NoAccount, ret |-> "void"]

RegOp(a, r) == [op |-> "registerAccount", acct |-> a, ret |-> r]

\* SIPService.isRegistered(): this.userAgent?.isRegistered() || false
IsRegistered == userAgent # NoEngine /\ engines[userAgent].registered

\* SIPService.isConnected()
IsConnected == userAgent # NoEngine /\ engines[userAgent].connected

\* buildWebSocketUrl accepting every transport
ValidTransport_Any(a) == TRUE

\* buildWebSocketUrl throws unless the transport is WS or WSS
ValidTransport(a) == Transport(a) \in {"WS", "WSS"}

\* updateAccountStatus: storageService.updateSIPAccount(id, {registrationStatus})
UpdateAccountStatus(st, a, s) == [st EXCEPT ![a] = s]

NewEngine(a) == [account |-> a, phase |-> "started",
                 registered |-> FALSE, connected |-> FALSE]

\* an engine whose teardown has finished: it emits nothing any more
StoppedEngine == [account |-> NoAccount, phase |-> "stopped",
                  registered |-> FALSE, connected |-> FALSE]

\* userAgent.stop() on the held engine: it closes its transport and goes on
\* emitting its teardown events
StopHeld(es, ua) ==
    IF ua # NoEngine
    THEN [es EXCEPT ![ua].phase = "stopping", ![ua].connected = FALSE]
    ELSE es

\* registerAccount without its in-flight guard
RegisterGuard_Off == FALSE

\* The in-flight guard of registerAccount (line 64)
RegisterGuard == isRegistering

\* Lines 83-123 of registerAccount: everything after the optional await.
RegisterBody(a) ==
    /\ isRegistering' = FALSE
    /\ pendingReg' = NoAccount
    /\ IF ValidTransport(a)
       THEN /\ Len(engines) < MaxEngines
            /\ engines' = Append(engines, NewEngine(a))
            /\ userAgent' = Len(engines) + 1
            /\ currentAccount' = a
            /\ status' = UpdateAccountStatus(status, a, "connecting")
            /\ lastOp' = RegOp(a, "true")
       ELSE /\ status' = UpdateAccountStatus(
                            UpdateAccountStatus(status, a, "connecting"), a, "failed")
            /\ lastOp' = RegOp(a, "false")
            /\ UNCHANGED <<engines, userAgent, currentAccount>>
    /\ UNCHANGED <<regTimers, callVars, extVars>>

\* registerAccount(account), up to its first suspension point
RegisterAccount(a) ==
    IF RegisterGuard
    THEN /\ lastOp' = RegOp(a, "false")
         /\ UNCHANGED <<userAgent, currentAccount, isRegistering, pendingReg,
                        engines, regTimers, status, callVars, extVars>>
    ELSE IF currentAccount = a /\ IsRegistered
    THEN /\ lastOp' = RegOp(a, "true")
         /\ UNCHANGED <<userAgent, currentAccount, isRegistering, pendingReg,
                        engines, regTimers, status, callVars, extVars>>
    ELSE IF currentAccount # NoAccount /\ currentAccount # a
    THEN /\ ValidTransport(a) => Len(engines) < MaxEngines
         /\ isRegistering' = TRUE
         /\ engines' = StopHeld(engines, userAgent)
         /\ userAgent' = NoEngine
         /\ currentAccount' = NoAccount
         /\ pendingReg' = a
         /\ lastOp' = RegOp(a, "pending")
         /\ UNCHANGED <<regTimers, status, callVars, extVars>>
    ELSE RegisterBody(a)

\* the continuation after 'await this.disconnect()'
RegisterResume ==
    /\ pendingReg # NoAccount
    /\ RegisterBody(pendingReg)

\* unregister()
Unregister ==
    /\ IF userAgent # NoEngine /\ currentAccount # NoAccount
       THEN status' = UpdateAccountStatus(status, currentAccount, "unregistered")
       ELSE UNCHANGED status
    /\ lastOp' = OtherOp
    /\ UNCHANGED extVars
    /\ UNCHANGED <<userAgent, currentAccount, isRegistering, pendingReg,
                   engines, regTimers, callVars>>

\* disconnect()
Disconnect ==
    /\ engines' = StopHeld(engines, userAgent)
    /\ userAgent' = NoEngine
    /\ currentAccount' = NoAccount
    /\ lastOp' = OtherOp
    /\ UNCHANGED extVars
    /\ UNCHANGED <<isRegistering, pendingReg, regTimers, status, callVars>>

\* ------------------------------------------------- engine events (handlers)
Live(e) == e \in 1..Len(engines) /\ engines[e].phase # "stopped"

\* 'connected': the handler only logs
EngineConnected(e) ==
    /\ Live(e) /\ engines[e].phase = "started" /\ ~engines[e].connected
    /\ engines' = [engines EXCEPT ![e].connected = TRUE]
    /\ lastOp' = OtherOp
    /\ UNCHANGED extVars
    /\ UNCHANGED <<userAgent, currentAccount, isRegistering, pendingReg,
                   regTimers, status, callVars>>

\* 'registered': defers updateAccountStatus(accountId, "registered") by 100 ms
EngineRegistered(e) ==
    /\ Live(e) /\ engines[e].phase = "started" /\ engines[e].connected
    /\ regTimers[engines[e].account] < MaxTimers
    /\ engines' = [engines EXCEPT ![e].registered = TRUE]
    /\ regTimers' = [regTimers EXCEPT ![engines[e].account] = @ + 1]
    /\ lastOp' = OtherOp
    /\ UNCHANGED extVars
    /\ UNCHANGED <<userAgent, currentAccount, isRegistering, pendingReg, status, callVars>>

\* the deferred callback of the 'registered' handler
RegisteredTimer(a) ==
    /\ regTimers[a] > 0
    /\ regTimers' = [regTimers EXCEPT ![a] = @ - 1]
    /\ status' = UpdateAccountStatus(status, a, "registered")
    /\ lastOp' = OtherOp
    /\ UNCHANGED extVars
    /\ UNCHANGED <<userAgent, currentAccount, isRegistering, pendingReg, engines, callVars>>

\* 'unregistered': updateAccountStatus(accountId, "unregistered")
EngineUnregistered(e) ==
    /\ Live(e) /\ engines[e].registered
    /\ engines' = [engines EXCEPT ![e].registered = FALSE]
    /\ status' = UpdateAccountStatus(status, engines[e].account, "unregistered")
    /\ lastOp' = OtherOp
    /\ UNCHANGED extVars
    /\ UNCHANGED <<userAgent, currentAccount, isRegistering, pendingReg, regTimers, callVars>>

\* 'registrationFailed': updateAccountStatus(accountId, "failed")
EngineRegistrationFailed(e) ==
    /\ Live(e) /\ engines[e].phase = "started" /\ engines[e].connected
    /\ engines' = [engines EXCEPT ![e].registered = FALSE]
    /\ status' = UpdateAccountStatus(status, engines[e].account, "failed")
    /\ lastOp' = OtherOp
    /\ UNCHANGED extVars
    /\ UNCHANGED <<userAgent, currentAccount, isRegistering, pendingReg, regTimers, callVars>>

\* 'disconnected': if (this.currentAccount) updateAccountStatus(its id, "unregistered");
\* a stopping engine has finished its teardown once its transport is closed
EngineDisconnected(e) ==
    /\ Live(e)
    /\ engines' = [engines EXCEPT ![e] =
                      IF @.phase = "stopping" THEN StoppedEngine
                      ELSE [@ EXCEPT !.connected = FALSE]]
    /\ status' = IF currentAccount # NoAccount
                 THEN UpdateAccountStatus(status, currentAccount, "unregistered")
                 ELSE status
    /\ lastOp' = OtherOp
    /\ UNCHANGED extVars
    /\ UNCHANGED <<userAgent, currentAccount, isRegistering, pendingReg, regTimers, callVars>>

\* 'transportError': if (this.currentAccount) updateAccountStatus(its id, "failed")
EngineTransportError(e) ==
    /\ Live(e)
    /\ engines' = [engines EXCEPT ![e].connected = FALSE]
    /\ status' = IF currentAccount # NoAccount
                 THEN UpdateAccountStatus(status, currentAccount, "failed")
                 ELSE status
    /\ lastOp' = OtherOp
    /\ UNCHANGED extVars
    /\ UNCHANGED <<userAgent, currentAccount, isRegistering, pendingReg, regTimers, callVars>>


\* ------------------------------------------------- the call controller
NoSession == 0
Unknown == <<"U", "n", "k", "n", "o", "w", "n">>

\* phone numbers are sequences of characters
PhoneNumbers == {<< >>, <<" ">>, <<"7">>}
\* remote_identity?.uri?.user of an inbound session
RemoteUsers == {Null, <<"9">>}

IsSpace(c) == c \in {" ", "\t", "\n"}

RECURSIVE TrimStart(_)
TrimStart(n) == IF n # << >> /\ IsSpace(Head(n)) THEN TrimStart(Tail(n)) ELSE n

RECURSIVE TrimEnd(_)
TrimEnd(n) == IF n # << >> /\ IsSpace(n[Len(n)])
              THEN TrimEnd(SubSeq(n, 1, Len(n) - 1)) ELSE n

\* a trim that removes nothing
Trim_None(n) == n

\* String.prototype.trim
Trim(n) == TrimEnd(TrimStart(n))

IdleState == [status |-> "idle", remoteNumber |-> Null,
              session |-> NoSession, duration |-> 0]

\* the state every 'ended' / 'failed' / callEnded handler sets
EndedState == [status |-> "ended", remoteNumber |-> Null,
               session |-> NoSession, duration |-> 0]

\* 'confirmed' handler: prev => ({...prev, status: "connected", duration: 0})
ConfirmedState(prev) == [prev EXCEPT !.status = "connected", !.duration = 0]

\* the duration-timer effect without its cleanup
DurationTimerEffect_NoCleanup(old, new, n) ==
    IF old = new THEN n ELSE n + (IF new = "connected" THEN 1 ELSE 0)

\* the duration-timer effect, keyed on callState.status: its cleanup clears the
\* interval the previous run created, its body creates one when connected
DurationTimerEffect(old, new, n) ==
    IF old = new THEN n
    ELSE (n - (IF old = "connected" THEN 1 ELSE 0))
           + (IF new = "connected" THEN 1 ELSE 0)

\* setCallState together with the render that commits it: the effect is keyed
\* on the status, so the commit of a changed status runs its cleanup and body
SetCallState(new) ==
    /\ callState' = new
    /\ intervals' = DurationTimerEffect(callState.status, new.status, intervals)

\* SIPService.makeCall without its isRegistered() check
CanCall_ConnectedOnly ==
    /\ userAgent # NoEngine /\ currentAccount # NoAccount
    /\ IsConnected

\* SIPService.makeCall preconditions (lines 239-261)
CanCall ==
    /\ userAgent # NoEngine /\ currentAccount # NoAccount
    /\ IsConnected
    /\ IsRegistered

NewSession(d, l) == [dir |-> d, phase |-> "new", listeners |-> l]

\* a session after its 'ended' or 'failed' event: it emits nothing any more
Terminated(ss, s) == [ss EXCEPT ![s].phase = "terminated", ![s].listeners = FALSE]

\* what a useCall.makeCall call did: its argument, what it returned, whether
\* it called sipService.makeCall and the session that returned (NoSession for
\* null), the engine commands invoked and the facade events emitted meanwhile
CallOp(n, r, inv, sess, cmds, em) ==
    [op |-> "makeCall", acct |-> NoAccount, arg |-> n, ret |-> r, facade |-> inv,
     session |-> sess, commands |-> cmds, emitted |-> em]

\* useCall.makeCall(phoneNumber); 'threw' is the engine's call() raising, which
\* creates no session; 'announced' is the engine firing 'newRTCSession' for
\* the session call() creates, whose handler (sipService.ts 218-221) emits
\* "incomingCall" whatever the originator: handleIncomingCall's state is then
\* overwritten by the "calling" state in the same commit
MakeCall(n, threw, announced) ==
    /\ IF Trim(n) = << >>
       THEN /\ lastOp' = CallOp(n, "false", FALSE, NoSession, {}, << >>)
            /\ UNCHANGED <<callState, sessions, intervals>>
       ELSE IF ~CanCall
       THEN /\ lastOp' = CallOp(n, "false", TRUE, NoSession, {}, << >>)
            /\ UNCHANGED <<callState, sessions, intervals>>
       ELSE IF threw
       THEN /\ lastOp' = CallOp(n, "false", TRUE, NoSession, {"call"}, << >>)
            /\ UNCHANGED <<callState, sessions, intervals>>
       ELSE /\ Len(sessions) < MaxSessions
            /\ sessions' = Append(sessions, NewSession("out", TRUE))
            /\ SetCallState([status |-> "calling", remoteNumber |-> n,
                             session |-> Len(sessions) + 1, duration |-> 0])
            /\ lastOp' = CallOp(n, "true", TRUE, Len(sessions) + 1, {"call"},
                                IF announced THEN <<"incomingCall">> ELSE << >>)
    /\ UNCHANGED extVars
    /\ UNCHANGED <<userAgent, currentAccount, isRegistering, pendingReg, engines,
                   regTimers, status, eventListeners, resetTimers>>

\* engine 'newRTCSession' for a remotely originated session: emit("incomingCall")
\* reaches handleIncomingCall when a handler is registered
EngineNewRTCSession(e, u) ==
    /\ Live(e) /\ engines[e].phase = "started" /\ engines[e].connected
    /\ Len(sessions) < MaxSessions
    /\ sessions' = Append(sessions, NewSession("in", FALSE))
    /\ IF "incomingCall" \in DOMAIN eventListeners
       THEN SetCallState([status |-> "ringing",
                          remoteNumber |-> IF u = Null THEN Unknown ELSE u,
                          session |-> Len(sessions) + 1, duration |-> 0])
       ELSE UNCHANGED <<callState, intervals>>
    /\ lastOp' = OtherOp
    /\ UNCHANGED extVars
    /\ UNCHANGED <<userAgent, currentAccount, isRegistering, pendingReg, engines,
                   regTimers, status, eventListeners, resetTimers>>

\* answerCall()
AnswerCall ==
    /\ IF callState.session # NoSession /\ callState.status = "ringing"
          /\ sessions[callState.session].dir = "in"
          /\ sessions[callState.session].phase = "new"
       THEN sessions' = [sessions EXCEPT ![callState.session].phase = "answered"]
       ELSE UNCHANGED sessions
    /\ lastOp' = OtherOp
    /\ UNCHANGED extVars
    /\ UNCHANGED <<userAgent, currentAccount, isRegistering, pendingReg, engines,
                   regTimers, status, eventListeners, callState, resetTimers,
                   intervals>>

Alive(s) == s \in 1..Len(sessions) /\ sessions[s].phase # "terminated"

\* session 'connecting': prev => ({...prev, status: "calling"})
SessionConnecting(s) ==
    /\ Alive(s) /\ sessions[s].dir = "out" /\ sessions[s].phase = "new"
    /\ sessions[s].listeners
    /\ SetCallState([callState EXCEPT !.status = "calling"])
    /\ lastOp' = OtherOp
    /\ UNCHANGED extVars
    /\ UNCHANGED <<userAgent, currentAccount, isRegistering, pendingReg, engines,
                   regTimers, status, eventListeners, sessions, resetTimers>>

\* session 'progress': prev => ({...prev, status: "ringing"})
SessionProgress(s) ==
    /\ Alive(s) /\ sessions[s].dir = "out" /\ sessions[s].phase \in {"new", "early"}
    /\ sessions' = [sessions EXCEPT ![s].phase = "early"]
    /\ IF sessions[s].listeners
       THEN SetCallState([callState EXCEPT !.status = "ringing"])
       ELSE UNCHANGED <<callState, intervals>>
    /\ lastOp' = OtherOp
    /\ UNCHANGED extVars
    /\ UNCHANGED <<userAgent, currentAccount, isRegistering, pendingReg, engines,
                   regTimers, status, eventListeners, resetTimers>>

\* session 'confirmed'
SessionConfirmed(s) ==
    /\ Alive(s)
    /\ \/ sessions[s].dir = "out" /\ sessions[s].phase \in {"new", "early"}
       \/ sessions[s].dir = "in" /\ sessions[s].phase = "answered"
    /\ sessions' = [sessions EXCEPT ![s].phase = "confirmed"]
    /\ IF sessions[s].listeners
       THEN SetCallState(ConfirmedState(callState))
       ELSE UNCHANGED <<callState, intervals>>
    /\ lastOp' = OtherOp
    /\ UNCHANGED extVars
    /\ UNCHANGED <<userAgent, currentAccount, isRegistering, pendingReg, engines,
                   regTimers, status, eventListeners, resetTimers>>

\* an 'ended' / 'failed' handler that schedules no reset
TerminationHandler_NoTimer(s) ==
    IF sessions[s].listeners
    THEN /\ SetCallState(EndedState)
         /\ UNCHANGED resetTimers
    ELSE UNCHANGED <<callState, intervals, resetTimers>>

\* what the 'ended' and the 'failed' handler of makeCall do
TerminationHandler(s) ==
    IF sessions[s].listeners
    THEN /\ resetTimers < MaxResets
         /\ SetCallState(EndedState)
         /\ resetTimers' = resetTimers + 1
    ELSE UNCHANGED <<callState, intervals, resetTimers>>

\* session 'ended': a confirmed session terminates
SessionEnded(s) ==
    /\ Alive(s) /\ sessions[s].phase = "confirmed"
    /\ sessions' = Terminated(sessions, s)
    /\ TerminationHandler(s)
    /\ lastOp' = OtherOp
    /\ UNCHANGED extVars
    /\ UNCHANGED <<userAgent, currentAccount, isRegistering, pendingReg, engines,
                   regTimers, status, eventListeners>>

\* session 'failed': a session terminates before it was confirmed
SessionFailed(s) ==
    /\ Alive(s) /\ sessions[s].phase # "confirmed"
    /\ sessions' = Terminated(sessions, s)
    /\ TerminationHandler(s)
    /\ lastOp' = OtherOp
    /\ UNCHANGED extVars
    /\ UNCHANGED <<userAgent, currentAccount, isRegistering, pendingReg, engines,
                   regTimers, status, eventListeners>>

\* hangupCall(): session.terminate() ends the held session at once
HangupCall ==
    /\ callState.session # NoSession /\ Alive(callState.session)
    /\ sessions' = Terminated(sessions, callState.session)
    /\ TerminationHandler(callState.session)
    /\ lastOp' = OtherOp
    /\ UNCHANGED extVars
    /\ UNCHANGED <<userAgent, currentAccount, isRegistering, pendingReg, engines,
                   regTimers, status, eventListeners>>

\* the 2-second timer: prev => ({...prev, status: "idle"})
ResetTimer ==
    /\ resetTimers > 0
    /\ resetTimers' = resetTimers - 1
    /\ SetCallState([callState EXCEPT !.status = "idle"])
    /\ lastOp' = OtherOp
    /\ UNCHANGED extVars
    /\ UNCHANGED <<userAgent, currentAccount, isRegistering, pendingReg, engines,
                   regTimers, status, eventListeners, sessions>>

\* one tick of a live interval: prev => ({...prev, duration: prev.duration + 1})
Tick ==
    /\ intervals > 0
    /\ callState.duration < MaxDuration
    /\ callState' = [callState EXCEPT !.duration = @ + 1]
    /\ lastOp' = OtherOp
    /\ UNCHANGED extVars
    /\ UNCHANGED <<userAgent, currentAccount, isRegistering, pendingReg, engines,
                   regTimers, status, eventListeners, sessions, resetTimers,
                   intervals>>

\* destroy(): disconnect() and eventListeners = {}
Destroy ==
    /\ engines' = StopHeld(engines, userAgent)
    /\ userAgent' = NoEngine
    /\ currentAccount' = NoAccount
    /\ eventListeners' = NoListeners
    /\ UNCHANGED selectorAccounts
    /\ subscribed' = [ev \in EventNames |-> << >>]
    /\ lastOp' = OtherOp
    /\ UNCHANGED <<pendingThrew, stored, activeId, nextId>>
    /\ UNCHANGED <<isRegistering, pendingReg, regTimers, status, callState,
                   sessions, resetTimers, intervals>>

\* ------------------------------------------------- the facade's events
\* the components that subscribe a handler of theirs
Handlers == {"useCall", "App", "AccountManager"}

\* what an emit(event, ...) did: the handlers it invoked, in order
EmitOp(ev, hs) == [op |-> "emit", acct |-> NoAccount, arg |-> ev, invoked |-> hs]

\* a slot that keeps the handler it already has
SetListener_KeepFirst(ls, ev, h) ==
    [e \in DOMAIN ls \cup {ev} |-> IF e \in DOMAIN ls THEN ls[e] ELSE h]

\* this.eventListeners[event] = listener
SetListener(ls, ev, h) ==
    [e \in DOMAIN ls \cup {ev} |-> IF e = ev THEN h ELSE ls[e]]

\* on(event, listener)
On(ev, h) ==
    /\ Len(subscribed[ev]) < MaxSubs
    /\ eventListeners' = SetListener(eventListeners, ev, h)
    /\ UNCHANGED selectorAccounts
    /\ subscribed' = [subscribed EXCEPT ![ev] = Append(@, h)]
    /\ lastOp' = OtherOp
    /\ UNCHANGED <<userAgent, currentAccount, isRegistering, pendingReg, engines,
                   regTimers, status, callState, sessions, resetTimers, intervals,
                   pendingThrew, stored, activeId, nextId>>

\* what an off(event, listener) call was given
OffOp(ev, h) == [op |-> "off", acct |-> NoAccount, arg |-> ev, handler |-> h]

\* off(event): delete this.eventListeners[event]; h is the listener that
\* callers pass as a second argument, which the method does not take
Off(ev, h) ==
    /\ eventListeners' = [e \in DOMAIN eventListeners \ {ev} |-> eventListeners[e]]
    /\ UNCHANGED selectorAccounts
    /\ subscribed' = [subscribed EXCEPT ![ev] = << >>]
    /\ lastOp' = OffOp(ev, h)
    /\ UNCHANGED <<userAgent, currentAccount, isRegistering, pendingReg, engines,
                   regTimers, status, callState, sessions, resetTimers, intervals,
                   pendingThrew, stored, activeId, nextId>>

\* emit(event, ...args): the listener of the slot, if any, is called once
Emit(ev) ==
    /\ lastOp' = EmitOp(ev, IF ev \in DOMAIN eventListeners
                            THEN <<eventListeners[ev]>> ELSE << >>)
    /\ UNCHANGED extVars
    /\ UNCHANGED <<userAgent, currentAccount, isRegistering, pendingReg, engines,
                   regTimers, status, callVars>>

\* --------------------------------------- engine commands that may raise
\* what a facade call did: how it returned ("threw" when it threw or its
\* promise rejected), how many status writes with their
\* registrationStatusChanged emission it made, and the engine commands it invoked
FacadeOp(name, r, n, cmds) ==
    [op |-> name, acct |-> NoAccount, ret |-> r, emitted |-> n, commands |-> cmds]

\* what the engine command of a registerAccount call may do: nothing wrong, or
\* stop(), the construction or start() raising
Faults == {"none", "stop", "construct", "start"}

\* the guard of unregister() that is always true
HoldsAccount_Always == TRUE

\* the guard of unregister() (line 127)
HoldsAccount == userAgent # NoEngine /\ currentAccount # NoAccount

\* lines 83-123 of registerAccount when the construction or start() raises:
\* the catch block writes "failed" and the call returns false; an engine
\* whose start() raised is held but never started
RegisterBodyRaising(a, fault) ==
    IF ValidTransport(a) /\ fault \in {"construct", "start"}
    THEN /\ isRegistering' = FALSE
         /\ pendingReg' = NoAccount
         /\ pendingThrew' = FALSE
         /\ status' = UpdateAccountStatus(
                         UpdateAccountStatus(status, a, "connecting"), a, "failed")
         /\ lastOp' = RegOp(a, "false")
         /\ IF fault = "start"
            THEN /\ Len(engines) < MaxEngines
                 /\ engines' = Append(engines, StoppedEngine)
                 /\ userAgent' = Len(engines) + 1
                 /\ currentAccount' = a
            ELSE UNCHANGED <<engines, userAgent, currentAccount>>
         /\ UNCHANGED <<regTimers, callVars, stored, activeId, nextId, subscribed,
                        selectorAccounts>>
    ELSE RegisterBody(a)

\* registerAccount(account) up to its first suspension point; when stop()
\* raises inside the awaited disconnect(), the engine and the account stay
\* held and the rejection reaches the catch block after the await
RegisterAccountRaising(a, fault) ==
    IF RegisterGuard \/ (currentAccount = a /\ IsRegistered)
    THEN RegisterAccount(a)
    ELSE IF currentAccount # NoAccount /\ currentAccount # a
    THEN IF fault = "stop" /\ userAgent # NoEngine
         THEN /\ isRegistering' = TRUE
              /\ pendingReg' = a
              /\ pendingThrew' = TRUE
              /\ lastOp' = RegOp(a, "pending")
              /\ UNCHANGED <<userAgent, currentAccount, engines, regTimers, status,
                             callVars, stored, activeId, nextId, subscribed, selectorAccounts>>
         ELSE RegisterAccount(a)
    ELSE RegisterBodyRaising(a, fault)

\* the continuation after 'await this.disconnect()'
RegisterResumeRaising(fault) ==
    /\ pendingReg # NoAccount
    /\ IF pendingThrew
       THEN /\ isRegistering' = FALSE
            /\ pendingReg' = NoAccount
            /\ pendingThrew' = FALSE
            /\ status' = UpdateAccountStatus(status, pendingReg, "failed")
            /\ lastOp' = RegOp(pendingReg, "false")
            /\ UNCHANGED <<userAgent, currentAccount, engines, regTimers, callVars,
                           stored, activeId, nextId, subscribed, selectorAccounts>>
       ELSE RegisterBodyRaising(pendingReg, fault)

\* unregister(); 'threw' is the engine's unregister() raising
UnregisterRaising(threw) ==
    /\ IF HoldsAccount
       THEN /\ status' = UpdateAccountStatus(status, currentAccount, "unregistered")
            /\ lastOp' = FacadeOp("unregister", IF threw THEN "threw" ELSE "void",
                                  1, {"unregister"})
       ELSE /\ UNCHANGED status
            /\ lastOp' = FacadeOp("unregister", "void", 0, {})
    /\ UNCHANGED <<userAgent, currentAccount, isRegistering, pendingReg,
                   engines, regTimers, callVars, extVars>>

\* disconnect(); 'threw' is the engine's stop() raising, which leaves the
\* engine and the account held
DisconnectRaising(threw) ==
    /\ IF userAgent # NoEngine /\ threw
       THEN /\ lastOp' = FacadeOp("disconnect", "threw", 0, {"stop"})
            /\ UNCHANGED <<userAgent, currentAccount, engines>>
       ELSE /\ engines' = StopHeld(engines, userAgent)
            /\ userAgent' = NoEngine
            /\ currentAccount' = NoAccount
            /\ lastOp' = FacadeOp("disconnect", "void", 0,
                                  IF userAgent # NoEngine THEN {"stop"} ELSE {})
    /\ UNCHANGED <<isRegistering, pendingReg, regTimers, status, callVars, extVars>>

\* destroy(): the promise of its disconnect() is dropped, so destroy itself
\* returns even when stop() raised
DestroyRaising(threw) ==
    /\ IF userAgent # NoEngine /\ threw
       THEN UNCHANGED <<userAgent, currentAccount, engines>>
       ELSE /\ engines' = StopHeld(engines, userAgent)
            /\ userAgent' = NoEngine
            /\ currentAccount' = NoAccount
    /\ eventListeners' = NoListeners
    /\ UNCHANGED selectorAccounts
    /\ subscribed' = [ev \in EventNames |-> << >>]
    /\ lastOp' = FacadeOp("destroy", "void", 0,
                          IF userAgent # NoEngine THEN {"stop"} ELSE {})
    /\ UNCHANGED <<isRegistering, pendingReg, regTimers, status, callState,
                   sessions, resetTimers, intervals, pendingThrew, stored,
                   activeId, nextId>>

\* ---------------------------------------------------- the account store
\* activeId when no account is active; ids are the positive numbers below
NoId == 0
Ids == 1..MaxIds

\* values of an editable field of an account, and of new Date()
Names == {"n1", "n2"}
Times == {1, 2}

\* Partial<SIPAccount>: any subset of the fields, the id among them
Partials ==
    {[f \in {} |-> f]}
      \cup {[name |-> n] : n \in Names}
      \cup {[id |-> i] : i \in Ids}
      \cup {[id |-> i, name |-> n] : i \in Ids, n \in Names}

\* what a StorageService call did: the call and its id argument, how it
\* returned ("threw" when it raised), the id of the record it returned, and
\* what became of its setItem ("none" when it made none)
StoreOp(name, arg, r, rec, w) ==
    [op |-> name, acct |-> NoAccount, arg |-> arg, ret |-> r, rec |-> rec,
     wrote |-> w]

\* the outcome of setItem
Wrote(ok) == IF ok THEN "stored" ELSE "failed"

\* what getSIPAccounts() returned to its caller
ReadOp(accounts) ==
    [op |-> "getSIPAccounts", acct |-> NoAccount, ret |-> "list", list |-> accounts]

\* getSIPAccounts(): [] for an absent value and for whatever the try block
\* throws on, else the parsed records
GetSIPAccounts(st) == IF st.parses = "yes" THEN st.accounts ELSE << >>

\* saveSIPAccounts(accounts): setItem either stores the value or throws and
\* stores nothing
SaveSIPAccounts(st, accounts, ok) == IF ok THEN Json(accounts) ELSE st

\* accounts.findIndex(acc => acc.id === id), 0 for -1
RECURSIVE FindFrom(_, _, _)
FindFrom(accounts, id, i) ==
    IF i > Len(accounts) THEN 0
    ELSE IF accounts[i].id = id THEN i
    ELSE FindFrom(accounts, id, i + 1)

\* findIndex falling back to the first record
FindIndex_OrFirst(accounts, id) ==
    IF FindFrom(accounts, id, 1) = 0 /\ accounts # << >> THEN 1
    ELSE FindFrom(accounts, id, 1)

FindIndex(accounts, id) == FindFrom(accounts, id, 1)

\* {...accounts[accountIndex], ...updates, updatedAt: new Date()}
Merge(rec, updates, t) ==
    [f \in DOMAIN rec |->
        IF f = "updatedAt" THEN t
        ELSE IF f \in DOMAIN updates THEN updates[f]
        ELSE rec[f]]

\* accounts.filter(acc => acc.id !== id)
Filtered(accounts, id) == SelectSeq(accounts, LAMBDA r : r.id # id)

\* the ids of the stored records, and whether one of them is id
StoredIds(st) == {GetSIPAccounts(st)[i].id : i \in 1..Len(GetSIPAccounts(st))}
HasRecord(st, id) == id \in StoredIds(st)

\* addSIPAccount(account); generateId() is taken to return an id no record has
AddSIPAccount(n, t, ok) ==
    /\ nextId <= MaxIds
    /\ LET accounts == Append(GetSIPAccounts(stored),
                              [id |-> nextId, name |-> n, updatedAt |-> t])
       IN stored' = SaveSIPAccounts(stored, accounts, ok)
    /\ nextId' = nextId + 1
    /\ lastOp' = IF ok THEN StoreOp("addSIPAccount", NoId, "record", nextId, "stored")
                 ELSE StoreOp("addSIPAccount", NoId, "threw", NoId, "failed")
    /\ UNCHANGED <<activeId, pendingThrew, subscribed, selectorAccounts>>
    /\ UNCHANGED <<userAgent, currentAccount, isRegistering, pendingReg, engines,
                   regTimers, status, callVars>>

\* updateSIPAccount(id, updates)
UpdateSIPAccount(id, updates, t, ok) ==
    /\ LET accounts == GetSIPAccounts(stored)
           i == FindIndex(accounts, id)
       IN IF i = 0
          THEN /\ lastOp' = StoreOp("updateSIPAccount", id, "null", NoId, "none")
               /\ UNCHANGED stored
          ELSE LET updated == Merge(accounts[i], updates, t)
               IN /\ stored' = SaveSIPAccounts(stored,
                                               [accounts EXCEPT ![i] = updated], ok)
                  /\ lastOp' = IF ok
                               THEN StoreOp("updateSIPAccount", id, "record",
                                            updated.id, "stored")
                               ELSE StoreOp("updateSIPAccount", id, "threw",
                                            NoId, "failed")
    /\ UNCHANGED <<activeId, nextId, pendingThrew, subscribed, selectorAccounts>>
    /\ UNCHANGED <<userAgent, currentAccount, isRegistering, pendingReg, engines,
                   regTimers, status, callVars>>

\* the pointer after deleteSIPAccount, cleared whether or not the save threw
PointerAfterDelete_Eager(ptr, id, ok) == IF ptr = id THEN NoId ELSE ptr

\* lines 396-401: the pointer is cleared after the save, so only if it returned
PointerAfterDelete(ptr, id, ok) == IF ok /\ ptr = id THEN NoId ELSE ptr

\* deleteSIPAccount(id)
DeleteSIPAccount(id, ok) ==
    /\ LET accounts == GetSIPAccounts(stored)
           filteredAccounts == Filtered(accounts, id)
       IN IF Len(filteredAccounts) = Len(accounts)
          THEN /\ lastOp' = StoreOp("deleteSIPAccount", id, "false", NoId, "none")
               /\ UNCHANGED <<stored, activeId>>
          ELSE /\ stored' = SaveSIPAccounts(stored, filteredAccounts, ok)
               /\ activeId' = PointerAfterDelete(activeId, id, ok)
               /\ lastOp' = StoreOp("deleteSIPAccount", id,
                                    IF ok THEN "true" ELSE "threw", NoId, Wrote(ok))
    /\ UNCHANGED <<nextId, pendingThrew, subscribed, selectorAccounts>>
    /\ UNCHANGED <<userAgent, currentAccount, isRegistering, pendingReg, engines,
                   regTimers, status, callVars>>

\* setActiveAccountId(accountId): setItem for an id, removeItem for null
SetActiveAccountId(id) ==
    /\ activeId' = id
    /\ lastOp' = StoreOp("setActiveAccountId", id, "void", NoId,
                         IF id # NoId THEN "stored" ELSE "none")
    /\ UNCHANGED <<stored, nextId, pendingThrew, subscribed, selectorAccounts>>
    /\ UNCHANGED <<userAgent, currentAccount, isRegistering, pendingReg, engines,
                   regTimers, status, callVars>>

\* a caller reads the collection: getSIPAccounts() returns, it never throws
ReadSIPAccounts ==
    /\ lastOp' = ReadOp(GetSIPAccounts(stored))
    /\ UNCHANGED extVars
    /\ UNCHANGED <<userAgent, currentAccount, isRegistering, pendingReg, engines,
                   regTimers, status, callVars>>

\* clearAllData()
ClearAllData ==
    /\ stored' = Absent
    /\ activeId' = NoId
    /\ lastOp' = StoreOp("clearAllData", NoId, "void", NoId, "none")
    /\ UNCHANGED <<nextId, pendingThrew, subscribed, selectorAccounts>>
    /\ UNCHANGED <<userAgent, currentAccount, isRegistering, pendingReg, engines,
                   regTimers, status, callVars>>

\* the stored value is replaced, outside the service, by one JSON.parse or the
\* map over it throws on
StorageCorrupted ==
    /\ stored # Corrupt
    /\ stored' = Corrupt
    /\ lastOp' = OtherOp
    /\ UNCHANGED <<activeId, nextId, pendingThrew, subscribed, selectorAccounts>>
    /\ UNCHANGED <<userAgent, currentAccount, isRegistering, pendingReg, engines,
                   regTimers, status, callVars>>

\* ------------------------------------------- the account screens of the UI
\* the facade's account a stored record with this id describes
AccountOf(id) == CASE id = 1 -> "A" [] id = 2 -> "B" [] OTHER -> "U"

\* what a handler of AccountManager or AccountSelector did to the account id
UIOp(name, id, r) == [op |-> name, acct |-> NoAccount, arg |-> id, ret |-> r]

\* AccountManager.handleAddAccount: addSIPAccount, and setActiveAccountId for
\* the first account of the list; the list the manager shows is reloaded after
\* every change it makes, so its length is that of the stored list
HandleAddAccount(n, t, ok) ==
    /\ nextId <= MaxIds
    /\ LET accounts == GetSIPAccounts(stored)
       IN /\ stored' = SaveSIPAccounts(stored,
                          Append(accounts,
                                 [id |-> nextId, name |-> n, updatedAt |-> t]), ok)
          /\ activeId' = IF ok /\ Len(accounts) = 0 THEN nextId ELSE activeId
    /\ nextId' = nextId + 1
    /\ lastOp' = UIOp("handleAddAccount", nextId, IF ok THEN "added" ELSE "caught")
    /\ UNCHANGED <<pendingThrew, subscribed, selectorAccounts>>
    /\ UNCHANGED <<userAgent, currentAccount, isRegistering, pendingReg, engines,
                   regTimers, status, callVars>>

\* AccountManager.handleEditAccount: updateSIPAccount(editingAccount.id,
\* formData) for an account of the list; the form data has no id field
HandleEditAccount(id, n, t, ok) ==
    /\ HasRecord(stored, id)
    /\ LET accounts == GetSIPAccounts(stored)
           i == FindIndex(accounts, id)
       IN stored' = SaveSIPAccounts(stored,
                       [accounts EXCEPT ![i] = Merge(@, [name |-> n], t)], ok)
    /\ lastOp' = UIOp("handleEditAccount", id, IF ok THEN "updated" ELSE "caught")
    /\ UNCHANGED <<activeId, nextId, pendingThrew, subscribed, selectorAccounts>>
    /\ UNCHANGED <<userAgent, currentAccount, isRegistering, pendingReg, engines,
                   regTimers, status, callVars>>

\* AccountManager.handleDeleteAccount: deleteSIPAccount(accountId) for an
\* account of the list, then the list is reloaded; the facade is not called
HandleDeleteAccount(id, ok) ==
    /\ HasRecord(stored, id)
    /\ stored' = SaveSIPAccounts(stored, Filtered(GetSIPAccounts(stored), id), ok)
    /\ activeId' = PointerAfterDelete(activeId, id, ok)
    /\ lastOp' = UIOp("handleDeleteAccount", id, IF ok THEN "true" ELSE "threw")
    /\ UNCHANGED <<nextId, pendingThrew, subscribed, selectorAccounts>>
    /\ UNCHANGED <<userAgent, currentAccount, isRegistering, pendingReg, engines,
                   regTimers, status, callVars>>

\* AccountManager.handleSetActiveAccount for an account of the list
HandleSetActiveAccount(id) ==
    /\ HasRecord(stored, id)
    /\ activeId' = id
    /\ lastOp' = UIOp("handleSetActiveAccount", id, "void")
    /\ UNCHANGED <<stored, nextId, pendingThrew, subscribed, selectorAccounts>>
    /\ UNCHANGED <<userAgent, currentAccount, isRegistering, pendingReg, engines,
                   regTimers, status, callVars>>

\* AccountSelector.handleAccountChange: the account is looked up in the
\* selector's own list and, when found, setActiveAccountId(accountId)
HandleAccountChange(id) ==
    /\ activeId' = IF id \in selectorAccounts THEN id ELSE activeId
    /\ lastOp' = UIOp("handleAccountChange", id,
                      IF id \in selectorAccounts THEN "selected" ELSE "ignored")
    /\ UNCHANGED <<stored, nextId, pendingThrew, subscribed, selectorAccounts>>
    /\ UNCHANGED <<userAgent, currentAccount, isRegistering, pendingReg, engines,
                   regTimers, status, callVars>>

\* AccountManager.handleRegisterAccount for an account of the list
HandleRegisterAccount(id) ==
    /\ HasRecord(stored, id)
    /\ RegisterAccount(AccountOf(id))

\* the page is loaded again: a new facade, App's mount effect resets every
\* saved status to "unregistered" and the selector's mount effect loads its
\* list; the store is what the last page left
PageLoad ==
    /\ userAgent' = NoEngine
    /\ currentAccount' = NoAccount
    /\ isRegistering' = FALSE
    /\ pendingReg' = NoAccount
    /\ engines' = << >>
    /\ regTimers' = [a \in Accounts |-> 0]
    /\ status' = [a \in Accounts |-> "unregistered"]
    /\ selectorAccounts' = StoredIds(stored)
    /\ lastOp' = OtherOp
    /\ UNCHANGED <<callVars, pendingThrew, stored, activeId, nextId, subscribed>>

\* ---------------------------------------------------------- specification
Init ==
    /\ userAgent = NoEngine
    /\ currentAccount = NoAccount
    /\ isRegistering = FALSE
    /\ pendingReg = NoAccount
    /\ engines = <<>>
    /\ regTimers = [a \in Accounts |-> 0]
    /\ status = [a \in Accounts |-> "unregistered"]
    /\ lastOp = OtherOp
    /\ eventListeners = [ev \in {"incomingCall", "callEnded"} |-> "useCall"]
    /\ callState = IdleState
    /\ sessions = << >>
    /\ resetTimers = 0
    /\ intervals = 0
    /\ pendingThrew = FALSE
    /\ stored = Absent
    /\ activeId = NoId
    /\ nextId = 1
    /\ subscribed = [ev \in EventNames |->
                       IF ev \in {"incomingCall", "callEnded"} THEN <<"useCall">>
                       ELSE << >>]
    /\ selectorAccounts = {}

Next ==
    \/ \E a \in Accounts : RegisterAccount(a)
    \/ RegisterResume
    \/ Unregister
    \/ Disconnect
    \/ \E e \in 1..Len(engines) : EngineConnected(e)
    \/ \E e \in 1..Len(engines) : EngineRegistered(e)
    \/ \E a \in Accounts : RegisteredTimer(a)
    \/ \E e \in 1..Len(engines) : EngineUnregistered(e)
    \/ \E e \in 1..Len(engines) : EngineRegistrationFailed(e)
    \/ \E e \in 1..Len(engines) : EngineDisconnected(e)
    \/ \E e \in 1..Len(engines) : EngineTransportError(e)

Spec == Init /\ [][Next]_vars

\* the call controller on top of the facade operations that bring the engine
\* of one account up and down: the account is registered once, its engine
\* connects, registers, disconnects and is torn down by destroy()
CallAccounts == {"A"}

NextCall ==
    \/ \E a \in CallAccounts : engines = << >> /\ RegisterAccount(a)
    \/ Destroy
    \/ \E e \in 1..Len(engines) : EngineConnected(e)
    \/ \E e \in 1..Len(engines) : EngineRegistered(e)
    \/ \E a \in Accounts : RegisteredTimer(a)
    \/ \E e \in 1..Len(engines) : EngineDisconnected(e)
    \/ \E n \in PhoneNumbers, threw \in BOOLEAN, announced \in BOOLEAN :
          MakeCall(n, threw, announced)
    \/ \E e \in 1..Len(engines), u \in RemoteUsers : EngineNewRTCSession(e, u)
    \/ AnswerCall
    \/ HangupCall
    \/ \E s \in 1..Len(sessions) : SessionConnecting(s)
    \/ \E s \in 1..Len(sessions) : SessionProgress(s)
    \/ \E s \in 1..Len(sessions) : SessionConfirmed(s)
    \/ \E s \in 1..Len(sessions) : SessionEnded(s)
    \/ \E s \in 1..Len(sessions) : SessionFailed(s)
    \/ ResetTimer
    \/ Tick

SpecCall == Init /\ [][NextCall]_vars

\* the same with timers that are eventually delivered: a pending 2-second
\* reset does not stay pending forever
SpecCallTimers == SpecCall /\ WF_vars(ResetTimer)

\* the facade with an engine whose commands may raise: two accounts are
\* registered, switched and let go while their engines connect, register and
\* close their transport
FaultAccounts == {"A", "B"}

NextFault ==
    \/ \E a \in FaultAccounts, fault \in Faults : RegisterAccountRaising(a, fault)
    \/ \E fault \in Faults \ {"stop"} : RegisterResumeRaising(fault)
    \/ \E threw \in BOOLEAN : UnregisterRaising(threw)
    \/ \E threw \in BOOLEAN : DisconnectRaising(threw)
    \/ \E threw \in BOOLEAN : DestroyRaising(threw)
    \/ \E e \in 1..Len(engines) : EngineConnected(e)
    \/ \E e \in 1..Len(engines) : EngineRegistered(e)
    \/ \E a \in Accounts : RegisteredTimer(a)
    \/ \E e \in 1..Len(engines) : EngineDisconnected(e)

SpecFault == Init /\ [][NextFault]_vars

\* the account store on its own: every public operation of StorageService, a
\* write that may fail, and a stored value that may stop parsing
NextStore ==
    \/ \E n \in Names, t \in Times, ok \in BOOLEAN : AddSIPAccount(n, t, ok)
    \/ \E id \in Ids, u \in Partials, t \in Times, ok \in BOOLEAN :
          UpdateSIPAccount(id, u, t, ok)
    \/ \E id \in Ids, ok \in BOOLEAN : DeleteSIPAccount(id, ok)
    \/ \E id \in Ids \cup {NoId} : SetActiveAccountId(id)
    \/ ReadSIPAccounts
    \/ ClearAllData
    \/ StorageCorrupted

SpecStore == Init /\ [][NextStore]_vars

\* the event slots on their own: components subscribe and unsubscribe, the
\* facade emits and is destroyed
NextEvents ==
    \/ \E ev \in EventNames, h \in Handlers : On(ev, h)
    \/ \E ev \in EventNames, h \in Handlers : Off(ev, h)
    \/ \E ev \in EventNames : Emit(ev)
    \/ Destroy

SpecEvents == Init /\ [][NextEvents]_vars

\* the account screens over the store and the facade: accounts are added,
\* renamed, deleted, selected and registered up to the engine's connection,
\* and the page is reloaded; the clock reads one value
NextUI ==
    \/ \E ok \in BOOLEAN : HandleAddAccount("n1", 1, ok)
    \/ \E id \in Ids, n \in Names, ok \in BOOLEAN : HandleEditAccount(id, n, 1, ok)
    \/ \E id \in Ids, ok \in BOOLEAN : HandleDeleteAccount(id, ok)
    \/ \E id \in Ids : HandleSetActiveAccount(id)
    \/ \E id \in Ids : HandleAccountChange(id)
    \/ \E id \in Ids : HandleRegisterAccount(id)
    \/ RegisterResume
    \/ \E e \in 1..Len(engines) : EngineConnected(e)
    \/ PageLoad

SpecUI == Init /\ [][NextUI]_vars

\* ------------------------------------------------------------------ claims

\* C1: the registration status of an account only moves along
\* unregistered->connecting, connecting->registered, connecting->failed,
\* registered->unregistered and any->unregistered; in particular no step takes
\* it from unregistered directly to registered.
C1_NoUnregisteredToRegistered ==
    [][\A a \in Accounts :
         ~(status[a] = "unregistered" /\ status'[a] = "registered")]_vars

\* C2: a registerAccount invoked while an earlier invocation is still in
\* flight returns false and neither constructs, stops nor replaces an engine.
C2_SecondRegisterRejected ==
    [][\A a \in Accounts :
         (isRegistering /\ RegisterAccount(a)) =>
             /\ lastOp' = RegOp(a, "false")
             /\ UNCHANGED <<userAgent, engines, currentAccount, pendingReg,
                            isRegistering, status>>]_vars

\* a second call for another account was turned away while the first one is
\* suspended at its await
C2_Witness ==
    /\ isRegistering /\ pendingReg # NoAccount
    /\ \E a \in Accounts \ {pendingReg} : lastOp = RegOp(a, "false")

\* C3: every engine the facade constructed, other than the one it holds, has
\* been stopped.
C3_OnlyHeldEngineStarted ==
    \A e \in 1..Len(engines) : e # userAgent => engines[e].phase # "started"

\* C4: whenever the call status is "idle", the session and the remote number
\* are null.
C4_IdleIsClear ==
    callState.status = "idle" =>
        callState.session = NoSession /\ callState.remoteNumber = Null

\* C5: at most one non-terminated session is held by, or has listeners of, the
\* call controller.
C5_OneLiveSession ==
    Cardinality({s \in 1..Len(sessions) :
                   Alive(s) /\ (s = callState.session \/ sessions[s].listeners)}) <= 1

C7_InboundEndIsSeen ==
    \A s \in 1..Len(sessions) :
        (sessions[s].dir = "in" /\ sessions[s].phase = "terminated"
           /\ callState.session = s)
        => callState.status \notin {"ringing", "connected"}

\* C8: a status that is "failed" becomes "connecting" or "registered" only by
\* a registerAccount call for that account.
C8_FailedIsSticky ==
    [][\A a \in Accounts :
         (status[a] = "failed" /\ status'[a] \in {"connecting", "registered"})
         => (lastOp'.op = "registerAccount" /\ lastOp'.acct = a)]_vars

\* C9: once the facade holds nothing and every engine has finished its
\* teardown, no account remains "registered" or "connecting".
C9_TeardownClearsStatus ==
    (/\ userAgent = NoEngine /\ currentAccount = NoAccount
     /\ pendingReg = NoAccount
     /\ \A e \in 1..Len(engines) : engines[e].phase = "stopped"
     /\ \A a \in Accounts : regTimers[a] = 0)
    => \A a \in Accounts : status[a] \notin {"registered", "connecting"}

UnsupportedTransport(a) == Transport(a) \notin {"WS", "WSS"}

\* a step in which a registerAccount(a) call returns
RegisterReturns(a) ==
    \/ RegisterAccount(a) /\ lastOp'.ret # "pending"
    \/ pendingReg = a /\ RegisterResume

C12_DeleteRemovesExactlyOne ==
    [][(lastOp'.op = "deleteSIPAccount" /\ lastOp'.wrote # "failed") =>
         LET id == lastOp'.arg
             before == GetSIPAccounts(stored)
             after == GetSIPAccounts(stored')
         IN IF HasRecord(stored, id)
            THEN /\ lastOp'.ret = "true"
                 /\ Len(after) = Len(before) - 1
                 /\ ~HasRecord(stored', id)
                 /\ after = SelectSeq(before, LAMBDA r : r.id # id)
                 /\ activeId' = IF activeId = id THEN NoId ELSE activeId
            ELSE /\ lastOp'.ret = "false"
                 /\ stored' = stored
                 /\ activeId' = activeId]_vars

\* C13: updateSIPAccount(id, updates) for an id no record has returns null,
\* calls setItem not at all, and leaves the stored value, every record's
\* updatedAt with it, and the active pointer unchanged.
C13_UpdateOfMissingIsNoOp ==
    [][(lastOp'.op = "updateSIPAccount" /\ ~HasRecord(stored, lastOp'.arg)) =>
         /\ lastOp'.ret = "null"
         /\ lastOp'.wrote = "none"
         /\ stored' = stored
         /\ activeId' = activeId]_vars

\* an update for an id that no record of a non-empty store has returned null
C13_Witness ==
    /\ lastOp.op = "updateSIPAccount" /\ lastOp.ret = "null"
    /\ GetSIPAccounts(stored) # << >>
    /\ ~HasRecord(stored, lastOp.arg)

\* C14: an id never changes: whatever fields updates carries, an id among
\* them, the record updateSIPAccount(id, updates) returns has the id it was
\* called with and the set of stored ids is the same as before.
C14_IdIsImmutable ==
    [][(lastOp'.op = "updateSIPAccount" /\ lastOp'.ret = "record") =>
         /\ lastOp'.rec = lastOp'.arg
         /\ StoredIds(stored') = StoredIds(stored)]_vars

\* C15: getSIPAccounts returns and never throws, with the empty list for an
\* absent or unparseable stored value; an add, update or delete whose setItem
\* fails raises, and leaves the stored value and the active pointer unchanged.
C15_StorageErrors ==
    [][/\ lastOp'.op = "getSIPAccounts" =>
            /\ lastOp'.ret = "list"
            /\ stored.parses # "yes" => lastOp'.list = << >>
            /\ stored.parses = "yes" => lastOp'.list = stored.accounts
       /\ (lastOp'.op \in {"addSIPAccount", "updateSIPAccount", "deleteSIPAccount"}
             /\ lastOp'.wrote = "failed") =>
            /\ lastOp'.ret = "threw"
            /\ stored' = stored
            /\ activeId' = activeId]_vars

\* the delete of the active account raised and the account is still stored
\* and still active
C15_Witness ==
    /\ lastOp.op = "deleteSIPAccount" /\ lastOp.ret = "threw"
    /\ activeId = lastOp.arg
    /\ HasRecord(stored, lastOp.arg)

\* C11: no facade operation throws or rejects because an engine command it
\* invoked raised: each such error ends in a "failed" status or a false or
\* null return.
C11_EngineErrorsStayInside ==
    lastOp.op \in {"registerAccount", "unregister", "disconnect", "destroy"}
        => lastOp.ret # "threw"

\* C18: unregister() and disconnect() called while the facade holds no engine
\* throw nothing, emit no registrationStatusChanged, write no account status
\* and nothing else to the store, and invoke no engine command.
C18_NoEngineNoEffect ==
    [][(userAgent = NoEngine /\ lastOp'.op \in {"unregister", "disconnect"}) =>
         /\ lastOp'.ret = "void"
         /\ lastOp'.emitted = 0
         /\ lastOp'.commands = {}
         /\ UNCHANGED <<status, stored, activeId, engines, userAgent>>]_vars

\* unregister() was called after an earlier engine had been let go
C18_Witness ==
    /\ lastOp = FacadeOp("unregister", "void", 0, {})
    /\ userAgent = NoEngine
    /\ engines # << >>

\* a number that is empty or made of white space only
Blank(n) == \A i \in 1..Len(n) : IsSpace(n[i])

\* C16: the controller's makeCall with an empty or white-space-only number
\* returns false without calling the facade's makeCall and leaves the call
\* state unchanged; so does a call for which the facade's makeCall returned null.
C16_RejectedCallChangesNothing ==
    [][lastOp'.op = "makeCall" =>
         /\ Blank(lastOp'.arg) =>
               /\ lastOp'.ret = "false"
               /\ ~lastOp'.facade
               /\ UNCHANGED <<callState, sessions, intervals, resetTimers>>
         /\ (lastOp'.facade /\ lastOp'.session = NoSession) =>
               /\ lastOp'.ret = "false"
               /\ UNCHANGED <<callState, sessions, intervals, resetTimers>>]_vars

\* a white-space-only number was turned away while a call could have been placed
C16_Witness ==
    /\ lastOp.op = "makeCall" /\ lastOp.arg = <<" ">> /\ lastOp.ret = "false"
    /\ userAgent # NoEngine
    /\ engines[userAgent].connected /\ engines[userAgent].registered

\* the engine is held, has a current account, and reports itself connected
\* and registered
EngineReady ==
    /\ userAgent # NoEngine /\ currentAccount # NoAccount
    /\ engines[userAgent].connected
    /\ engines[userAgent].registered

\* C17: the facade's makeCall invokes the engine's call() only when an engine
\* and a current account exist and the engine reports itself connected and
\* registered; otherwise it returns null and no session is created.
C17_CallOnlyWhenReady ==
    [][/\ lastOp'.op = "makeCall" =>
            /\ "call" \in lastOp'.commands => EngineReady
            /\ (lastOp'.facade /\ ~EngineReady) =>
                  /\ lastOp'.session = NoSession
                  /\ sessions' = sessions
       /\ (Len(sessions') > Len(sessions) /\ sessions'[Len(sessions')].dir = "out")
            => EngineReady]_vars

\* the facade's makeCall returned null for a connected engine that is not
\* registered
C17_Witness ==
    /\ lastOp.op = "makeCall" /\ lastOp.facade /\ lastOp.session = NoSession
    /\ lastOp.commands = {}
    /\ userAgent # NoEngine
    /\ engines[userAgent].connected /\ ~engines[userAgent].registered

\* C19: each event name has at most one handler: an emission invokes the
\* handler of the latest on() for that name exactly once and no handler an
\* earlier on() passed; with no handler subscribed it invokes nothing.
C19_LastSubscriberWins ==
    [][lastOp'.op = "emit" =>
         LET hs == subscribed[lastOp'.arg]
             invoked == lastOp'.invoked
         IN /\ Len(invoked) <= 1
            /\ hs = << >> => invoked = << >>
            /\ hs # << >> =>
                  /\ invoked = <<hs[Len(hs)]>>
                  /\ \A i \in 1..(Len(hs) - 1) :
                        hs[i] # hs[Len(hs)] =>
                           \A k \in 1..Len(invoked) : invoked[k] # hs[i]]_vars

\* an event with two different subscribers in a row was emitted to the second
C19_Witness ==
    /\ lastOp.op = "emit"
    /\ Len(subscribed[lastOp.arg]) >= 2
    /\ subscribed[lastOp.arg][1] # subscribed[lastOp.arg][2]
    /\ lastOp.invoked = <<subscribed[lastOp.arg][Len(subscribed[lastOp.arg])]>>

\* C20: the facade emits incomingCall only for sessions the engine reports as
\* inbound: no incomingCall is emitted for the session its own makeCall
\* creates.
C20_IncomingCallOnlyForInbound ==
    lastOp.op = "makeCall" => lastOp.emitted = << >>

\* C21: a call state that is "ended" has a reset timer pending, and with
\* timers eventually delivered every "ended" state is followed by "idle".
C21_EndedReturnsToIdle ==
    /\ [](callState.status = "ended" => resetTimers > 0)
    /\ (callState.status = "ended") ~> (callState.status = "idle")

\* an outbound call has ended and its reset is pending
C21_Witness ==
    /\ callState.status = "ended" /\ resetTimers > 0
    /\ \E s \in 1..Len(sessions) :
          sessions[s].dir = "out" /\ sessions[s].phase = "terminated"

\* C22: registerAccount(a) called while a is the current account and the
\* engine reports registered returns true and changes nothing: no engine is
\* constructed, stopped or replaced, no status is written, and a repeated
\* call leaves the state as it is.
C22_RegisterIsIdempotent ==
    [][\A a \in Accounts :
         (/\ currentAccount = a /\ userAgent # NoEngine
          /\ engines[userAgent].registered
          /\ RegisterAccount(a)) =>
             /\ lastOp' = RegOp(a, "true")
             /\ UNCHANGED <<userAgent, currentAccount, isRegistering, pendingReg,
                            engines, regTimers, status, eventListeners>>
             /\ lastOp = RegOp(a, "true") => UNCHANGED vars]_vars

\* C23: a change of the registration status of account x is caused only by a
\* command on x (registerAccount for x, unregister while x is current) or by
\* an event, or the deferred 'registered' update, of an engine that was
\* created for x; an event of another account's engine never changes it.
C23_StatusFollowsOwnEngine ==
    [][\A x \in Accounts :
         status'[x] # status[x] =>
             \/ RegisterAccount(x)
             \/ pendingReg = x /\ RegisterResume
             \/ currentAccount = x /\ Unregister
             \/ RegisteredTimer(x)
             \/ \E e \in 1..Len(engines) :
                   /\ engines[e].account = x
                   /\ \/ EngineUnregistered(e)
                      \/ EngineRegistrationFailed(e)
                      \/ EngineDisconnected(e)
                      \/ EngineTransportError(e)]_vars

\* C24: in every state at most one account has status "connecting" or
\* "registered", and such an account is the current account of the facade,
\* which holds an engine.
C24_OneActiveRegistration ==
    LET active == {a \in Accounts : status[a] \in {"connecting", "registered"}}
    IN /\ Cardinality(active) <= 1
       /\ \A a \in active : currentAccount = a /\ userAgent # NoEngine

\* C25: a registerAccount call for an account with an unsupported transport,
\* which returns false, leaves the held engine, the current account and the
\* current account's status as they were before the call; this covers both
\* steps of a call that waits for disconnect().
C25_RejectedConfigChangesNothing ==
    [][\A a \in Accounts :
         (/\ UnsupportedTransport(a)
          /\ RegisterAccount(a) \/ (pendingReg = a /\ RegisterResume)) =>
             /\ userAgent' = userAgent
             /\ currentAccount' = currentAccount
             /\ userAgent # NoEngine => engines'[userAgent] = engines[userAgent]
             /\ currentAccount # NoAccount =>
                   status'[currentAccount] = status[currentAccount]]_vars

\* C26: the call state is changed only by events of the session it holds: an
\* event of another session leaves it as it is, and so does a reset timer
\* scheduled by an earlier call once a later call is held.
C26_OnlyHeldSessionActs ==
    [][/\ \A s \in 1..Len(sessions) :
            (/\ s # callState.session
             /\ \/ SessionConnecting(s) \/ SessionProgress(s)
                \/ SessionConfirmed(s)
                \/ SessionEnded(s) \/ SessionFailed(s)) =>
                callState' = callState
       /\ (callState.session # NoSession /\ ResetTimer) =>
             callState' = callState]_vars

\* C27: once the inbound session the call state holds has been answered and
\* confirmed, the call state is "connected" with the duration timer running;
\* it does not stay "ringing".
C27_AnsweredInboundConnects ==
    \A s \in 1..Len(sessions) :
        (/\ callState.session = s
         /\ sessions[s].dir = "in"
         /\ sessions[s].phase = "confirmed") =>
            callState.status = "connected" /\ intervals = 1

\* C28: an unsubscribe removes only the caller's own handler: when handler
\* hP was subscribed to an event and another handler hQ was subscribed to it
\* later, off(event, hP) leaves hQ registered.
C28_OffRemovesOwnHandlerOnly ==
    [][(/\ lastOp'.op = "off"
        /\ \E i \in 1..Len(subscribed[lastOp'.arg]) :
              subscribed[lastOp'.arg][i] = lastOp'.handler
        /\ lastOp'.arg \in DOMAIN eventListeners
        /\ eventListeners[lastOp'.arg] # lastOp'.handler) =>
            /\ lastOp'.arg \in DOMAIN eventListeners'
            /\ eventListeners'[lastOp'.arg] = eventListeners[lastOp'.arg]]_vars

\* C29: after an account is deleted through the account manager the facade
\* holds no engine for it: the deleted account is not the current account
\* with a held engine, and no engine created for it is still started.
C29_DeletedAccountHasNoEngine ==
    [][(lastOp'.op = "handleDeleteAccount" /\ lastOp'.ret = "true") =>
          /\ ~(currentAccount' = AccountOf(lastOp'.arg) /\ userAgent' # NoEngine)
          /\ \A e \in 1..Len(engines') :
                engines'[e].account = AccountOf(lastOp'.arg) =>
                   engines'[e].phase # "started"]_vars

\* C30: the persisted active-account pointer is absent or is the id of a
\* stored account.
C30_ActivePointerIsStored ==
    activeId = NoId \/ HasRecord(stored, activeId)

====
